---- MODULE Spec2Model ----
(***************************************************************************)
(* Inventory ledger engine of Honsen_WMS (src/db_manager.py) and the batch *)
(* dialog that drives it (src/batch_transaction_dialog.py).                *)
(*                                                                         *)
(* The database is two tables, created by initialize_all_schema of         *)
(* src/login.py (initialize_database of db_manager.py stops at its first   *)
(* statement, "id INTEGER PRIMARY PRIMARY KEY", and creates nothing).      *)
(* inventory maps the id of every existing item to its row; its id is a    *)
(* plain INTEGER PRIMARY KEY, so a new item gets the largest id in use     *)
(* plus one.  transactions maps the id of every surviving ledger row to    *)
(* its row; its id is AUTOINCREMENT, so tx_seq, the last id handed out,    *)
(* only grows.  Every operation opens its own connection, commits on       *)
(* success and returns early or rolls back on failure, so one operation is *)
(* one step.  No connection issues PRAGMA foreign_keys, so SQLite does not *)
(* enforce the FOREIGN KEY clause of transactions.item_id.                 *)
(***************************************************************************)
EXTENDS Integers, Sequences, FiniteSets, TLC

VARIABLES inventory, transactions, tx_seq, last, request, instances

vars == <<inventory, transactions, tx_seq, last, request, instances>>

(* ------------------------------ bounds --------------------------------- *)
MaxItems == 2
MaxTx == 3
MaxQty == 2
MaxLines == 2
MaxInitialStock == 1
MaxLedgerTx == 2
MaxImport == 1
MaxInstances == 2

ItemIds == 1..MaxItems
\* item names and references: as many distinct texts of each as there are ids
Names == 1..MaxItems
References == 1..MaxItems
TxIds == 1..MaxTx
Quantities == 1..MaxQty
\* quantities a direct caller of db_manager may pass: no function tests them
ApiQuantities == (-1)..MaxQty

(* ------------------------------ schema --------------------------------- *)
\* CHECK(type IN ('IN', 'OUT', 'REVERSAL-IN', 'REVERSAL-OUT'))
CheckTypes == {"IN", "OUT", "REVERSAL-IN", "REVERSAL-OUT"}

\* the type TransactionDialog and BatchTransactionDialog are constructed with
DialogTypes == {"IN", "OUT"}

\* type strings a direct caller of record_transaction may pass: the four the
\* CHECK constraint admits and the legacy tag it rejects
RecordTypes == CheckTypes \cup {"REVERSAL"}

\* transaction_type strings a caller of batch_record_transactions may pass
BatchTypes == {"IN", "out"}

\* the initial stock AddItemDialog may pass to insert_inventory_item
InitialStocks == 0..MaxInitialStock

\* str.upper() on the type strings above
upper(s) ==
  CASE s = "in" -> "IN"
    [] s = "out" -> "OUT"
    [] OTHER -> s

\* str.startswith('REVERSAL')
startswith_REVERSAL(t) == t \in {"REVERSAL", "REVERSAL-IN", "REVERSAL-OUT"}

\* the three values a db_manager call works on
Db(inv, txs, seq) == [inventory |-> inv, transactions |-> txs, tx_seq |-> seq]

\* UPDATE inventory SET current_stock = current_stock + ? WHERE id = ?
\* (no row matches an unknown id: nothing changes and no error is raised)
update_stock(inv, item_id, stock_change) ==
  [i \in DOMAIN inv |->
     IF i = item_id
       THEN [inv[i] EXCEPT !.current_stock = @ + stock_change]
       ELSE inv[i]]

\* date, recipient_source and project_ref of a transaction row, taken as one
\* value: a row is written with the texts "entered" in its dialog, and
\* EditTransactionDialog passes update_transaction the texts it "edited"
Details == {"edited"}

\* new_recipient_source and new_project_ref of reverse_transaction: the
\* original's texts behind a reversal prefix
reversal_details(details) ==
  CASE details = "entered" -> "reversal:entered"
    [] details = "edited" -> "reversal:edited"
    [] OTHER -> details

\* an INSERT into a transactions table whose id is a plain INTEGER PRIMARY
\* KEY: the new row gets the largest surviving id plus one
insert_tx_rowid(db, item_id, type, quantity, details) ==
  LET id == IF DOMAIN db.transactions = {} THEN 1
            ELSE 1 + CHOOSE m \in DOMAIN db.transactions :
                       \A t \in DOMAIN db.transactions : t <= m
  IN  [db EXCEPT
         !.transactions =
            [t \in DOMAIN db.transactions \cup {id} |->
               IF t = id
                 THEN [item_id |-> item_id, type |-> type, quantity |-> quantity,
                       details |-> details]
                 ELSE db.transactions[t]],
         !.tx_seq = IF id > @ THEN id ELSE @]

\* INSERT INTO transactions (item_id, date, type, quantity, ...)
insert_tx(db, item_id, type, quantity, details) ==
  LET id == db.tx_seq + 1
  IN  [db EXCEPT
         !.transactions =
            [t \in DOMAIN db.transactions \cup {id} |->
               IF t = id
                 THEN [item_id |-> item_id, type |-> type, quantity |-> quantity,
                       details |-> details]
                 ELSE db.transactions[t]],
         !.tx_seq = id]

(* ------------------------------ catalog ------------------------------- *)
\* the rowid SQLite gives a new row of a table without AUTOINCREMENT
next_rowid(ids) ==
  IF ids = {} THEN 1 ELSE (CHOOSE m \in ids : \A i \in ids : i <= m) + 1

\* reference TEXT UNIQUE: some row other than row except holds the reference
reference_taken(inv, reference, except) ==
  \E i \in DOMAIN inv \ except : inv[i].reference = reference

\* insert_inventory_item: the INSERT raises IntegrityError on a reference in
\* use and the function returns None (id 0 here); name is only NOT NULL
insert_inventory_item(db, name, reference, current_stock) ==
  IF reference_taken(db.inventory, reference, {})
    THEN [id |-> 0, db |-> db]
  ELSE
    LET id == next_rowid(DOMAIN db.inventory)
    IN  [id |-> id,
         db |-> [db EXCEPT !.inventory =
                   [i \in DOMAIN db.inventory \cup {id} |->
                      IF i = id
                        THEN [name |-> name, reference |-> reference,
                              current_stock |-> current_stock]
                        ELSE db.inventory[i]]]]

\* update_inventory_item: UPDATE ... WHERE id=?; a missing id matches no row
\* and raises nothing, so the function returns True
update_inventory_item(db, item_id, name, reference) ==
  IF item_id \in DOMAIN db.inventory
     /\ reference_taken(db.inventory, reference, {item_id})
    THEN [ok |-> FALSE, db |-> db]
  ELSE
    [ok |-> TRUE,
     db |-> [db EXCEPT !.inventory =
               [i \in DOMAIN db.inventory |->
                  IF i = item_id
                    THEN [db.inventory[i] EXCEPT !.name = name,
                                                 !.reference = reference]
                    ELSE db.inventory[i]]]]

\* delete_inventory_item: both DELETE statements run whether or not the item
\* exists; the result is the rowcount of the second
delete_inventory_item(db, item_id) ==
  [ok |-> item_id \in DOMAIN db.inventory,
   db |-> [db EXCEPT
             !.transactions =
                [t \in {u \in DOMAIN db.transactions :
                          db.transactions[u].item_id # item_id} |->
                   db.transactions[t]],
             !.inventory =
                [i \in DOMAIN db.inventory \ {item_id} |-> db.inventory[i]]]]

\* batch_import_inventory that overwrites the stock of a reference it finds
RECURSIVE batch_import_inventory_restock(_, _, _, _)
batch_import_inventory_restock(db, items, k, stats) ==
  IF k > Len(items)
    THEN [stats |-> stats, db |-> db]
  ELSE
    IF reference_taken(db.inventory, items[k].reference, {})
      THEN batch_import_inventory_restock(
             [db EXCEPT !.inventory =
                [i \in DOMAIN db.inventory |->
                   IF db.inventory[i].reference = items[k].reference
                     THEN [db.inventory[i] EXCEPT
                             !.name = items[k].name,
                             !.current_stock = items[k].current_stock]
                     ELSE db.inventory[i]]],
             items, k + 1, [stats EXCEPT !.updated = @ + 1])
    ELSE
      batch_import_inventory_restock(
        insert_inventory_item(db, items[k].name, items[k].reference,
                              items[k].current_stock).db,
        items, k + 1, [stats EXCEPT !.inserted = @ + 1])

\* batch_import_inventory from item k on: UPDATE ... WHERE reference=?, and an
\* INSERT with the file's current_stock when no row was updated
RECURSIVE batch_import_inventory(_, _, _, _)
batch_import_inventory(db, items, k, stats) ==
  IF k > Len(items)
    THEN [stats |-> stats, db |-> db]
  ELSE
    IF reference_taken(db.inventory, items[k].reference, {})
      THEN batch_import_inventory(
             [db EXCEPT !.inventory =
                [i \in DOMAIN db.inventory |->
                   IF db.inventory[i].reference = items[k].reference
                     THEN [db.inventory[i] EXCEPT !.name = items[k].name]
                     ELSE db.inventory[i]]],
             items, k + 1, [stats EXCEPT !.updated = @ + 1])
    ELSE
      batch_import_inventory(
        insert_inventory_item(db, items[k].name, items[k].reference,
                              items[k].current_stock).db,
        items, k + 1, [stats EXCEPT !.inserted = @ + 1])

(* -------------------------- record_transaction ------------------------- *)
\* record_transaction with the stock test off by one (<= for <)
record_transaction_strict(db, item_id, type, quantity) ==
  IF type = "OUT" /\ (item_id \notin DOMAIN db.inventory
                      \/ db.inventory[item_id].current_stock <= quantity)
    THEN [ok |-> FALSE, db |-> db]
  ELSE IF type \notin CheckTypes
    THEN [ok |-> FALSE, db |-> db]
  ELSE
    LET stock_change == IF type = "IN" THEN quantity ELSE -quantity
        updated == [db EXCEPT !.inventory = update_stock(@, item_id, stock_change)]
    IN  [ok |-> TRUE, db |-> insert_tx(updated, item_id, type, quantity, "entered")]

\* record_transaction that commits the stock UPDATE when the INSERT fails
record_transaction_no_rollback(db, item_id, type, quantity) ==
  IF type = "OUT" /\ (item_id \notin DOMAIN db.inventory
                      \/ db.inventory[item_id].current_stock < quantity)
    THEN [ok |-> FALSE, db |-> db]
  ELSE
    LET stock_change == IF type = "IN" THEN quantity ELSE -quantity
        updated == [db EXCEPT !.inventory = update_stock(@, item_id, stock_change)]
    IN  IF type \notin CheckTypes
          THEN [ok |-> FALSE, db |-> updated]
          ELSE [ok |-> TRUE,
                db |-> insert_tx(updated, item_id, type, quantity, "entered")]

\* record_transaction: step 1 the stock check (type OUT only), step 2 the
\* UPDATE of inventory, step 3 the INSERT.  The INSERT of a type outside the
\* CHECK constraint raises IntegrityError and conn.rollback() undoes step 2.
record_transaction(db, item_id, type, quantity) ==
  IF type = "OUT" /\ (item_id \notin DOMAIN db.inventory
                      \/ db.inventory[item_id].current_stock < quantity)
    THEN [ok |-> FALSE, db |-> db]
  ELSE
    LET stock_change == IF type = "IN" THEN quantity ELSE -quantity
        updated == [db EXCEPT !.inventory = update_stock(@, item_id, stock_change)]
    IN  IF type \notin CheckTypes
          THEN [ok |-> FALSE, db |-> db]
          ELSE [ok |-> TRUE,
                db |-> insert_tx(updated, item_id, type, quantity, "entered")]

(* ---------------------- batch_record_transactions ---------------------- *)
\* a pre-check that tests every line against the stock in the database,
\* without the in-memory deduction of the earlier lines
RECURSIVE batch_precheck_no_deduction(_, _, _, _, _)
batch_precheck_no_deduction(inventory_stocks, type_upper, txl, k, failed) ==
  IF k > Len(txl)
    THEN [aborted |-> FALSE, failed |-> failed]
  ELSE
    LET item_id == txl[k].item_id
        quantity == txl[k].quantity
    IN  IF item_id \notin DOMAIN inventory_stocks
          THEN batch_precheck_no_deduction(inventory_stocks, type_upper, txl,
                                           k + 1, Append(failed, k))
        ELSE IF type_upper = "OUT" /\ inventory_stocks[item_id] < quantity
          THEN [aborted |-> TRUE, failed |-> Append(failed, k)]
        ELSE batch_precheck_no_deduction(inventory_stocks, type_upper, txl,
                                         k + 1, failed)

\* first loop: the in-memory pre-check over inventory_stocks; failed holds
\* the positions of the lines appended to results['failed_transactions']
RECURSIVE batch_precheck(_, _, _, _, _)
batch_precheck(inventory_stocks, type_upper, txl, k, failed) ==
  IF k > Len(txl)
    THEN [aborted |-> FALSE, failed |-> failed]
  ELSE
    LET item_id == txl[k].item_id
        quantity == txl[k].quantity
    IN  IF item_id \notin DOMAIN inventory_stocks
          THEN batch_precheck(inventory_stocks, type_upper, txl, k + 1,
                              Append(failed, k))
        ELSE IF type_upper = "OUT"
          THEN IF inventory_stocks[item_id] < quantity
                 THEN [aborted |-> TRUE, failed |-> Append(failed, k)]
                 ELSE batch_precheck(
                        [inventory_stocks EXCEPT ![item_id] = @ - quantity],
                        type_upper, txl, k + 1, failed)
        ELSE batch_precheck(
               [inventory_stocks EXCEPT ![item_id] = @ + quantity],
               type_upper, txl, k + 1, failed)

\* second loop: one UPDATE and one INSERT per line that does not carry the
\* 'error' key (a key only an earlier call on the same dicts can have set)
RECURSIVE batch_apply(_, _, _, _, _)
batch_apply(db, type_upper, txl, k, successful_count) ==
  IF k > Len(txl)
    THEN [db |-> db, successful_count |-> successful_count]
  ELSE IF txl[k].error
    THEN batch_apply(db, type_upper, txl, k + 1, successful_count)
  ELSE
    LET item_id == txl[k].item_id
        quantity == txl[k].quantity
        stock_change == IF type_upper = "IN" THEN quantity ELSE -quantity
        updated == [db EXCEPT !.inventory = update_stock(@, item_id, stock_change)]
    IN  batch_apply(insert_tx(updated, item_id, type_upper, quantity, "entered"),
                    type_upper, txl, k + 1, successful_count + 1)

\* tx['error'] = ... on the insufficient line: the caller's dict is changed
tag_error(txl, k) == [txl EXCEPT ![k].error = TRUE]

\* batch_record_transactions writing each line as soon as it passed its check
\* and returning on the insufficient line without a rollback
batch_record_transactions_no_rollback(db, transaction_type, txl) ==
  LET type_upper == upper(transaction_type)
  IN  IF type_upper \notin {"IN", "OUT"}
        THEN [successful_count |-> 0, failed |-> <<0>>, db |-> db, txl |-> txl]
      ELSE
        LET inventory_stocks ==
              [i \in DOMAIN db.inventory |-> db.inventory[i].current_stock]
            pre == batch_precheck(inventory_stocks, type_upper, txl, 1, <<>>)
        IN  IF pre.aborted
              THEN LET k == pre.failed[Len(pre.failed)]
                       ap == batch_apply(db, type_upper, SubSeq(txl, 1, k - 1), 1, 0)
                   IN  [successful_count |-> 0, failed |-> pre.failed,
                        db |-> ap.db, txl |-> tag_error(txl, k)]
              ELSE LET ap == batch_apply(db, type_upper, txl, 1, 0)
                   IN  [successful_count |-> ap.successful_count,
                        failed |-> pre.failed, db |-> ap.db, txl |-> txl]

\* batch_record_transactions reporting every line of an aborted batch
batch_record_transactions_all_failed(db, transaction_type, txl) ==
  LET type_upper == upper(transaction_type)
  IN  IF type_upper \notin {"IN", "OUT"}
        THEN [successful_count |-> 0, failed |-> <<0>>, db |-> db, txl |-> txl]
      ELSE
        LET inventory_stocks ==
              [i \in DOMAIN db.inventory |-> db.inventory[i].current_stock]
            pre == batch_precheck(inventory_stocks, type_upper, txl, 1, <<>>)
        IN  IF pre.aborted
              THEN [successful_count |-> 0,
                    failed |-> [k \in 1..Len(txl) |-> k], db |-> db,
                    txl |-> tag_error(txl, pre.failed[Len(pre.failed)])]
              ELSE LET ap == batch_apply(db, type_upper, txl, 1, 0)
                   IN  [successful_count |-> ap.successful_count,
                        failed |-> pre.failed, db |-> ap.db, txl |-> txl]

\* failed = <<0>> stands for the single {'error': ...} descriptor returned
\* for an invalid transaction type; txl is the caller's list after the call
batch_record_transactions(db, transaction_type, txl) ==
  LET type_upper == upper(transaction_type)
  IN  IF type_upper \notin {"IN", "OUT"}
        THEN [successful_count |-> 0, failed |-> <<0>>, db |-> db, txl |-> txl]
      ELSE
        LET inventory_stocks ==
              [i \in DOMAIN db.inventory |-> db.inventory[i].current_stock]
            pre == batch_precheck(inventory_stocks, type_upper, txl, 1, <<>>)
        IN  IF pre.aborted
              THEN [successful_count |-> 0, failed |-> pre.failed, db |-> db,
                    txl |-> tag_error(txl, pre.failed[Len(pre.failed)])]
              ELSE LET ap == batch_apply(db, type_upper, txl, 1, 0)
                   IN  [successful_count |-> ap.successful_count,
                        failed |-> pre.failed, db |-> ap.db, txl |-> txl]

(* -------------------------- reverse_transaction ------------------------ *)
\* reverse_transaction without the refusal of REVERSAL rows: a reversal row
\* is reversed like the row of its direction
reverse_transaction_any_type(db, tx_id) ==
  IF tx_id \notin DOMAIN db.transactions
    THEN [ok |-> FALSE, db |-> db]
  ELSE
    LET item_id == db.transactions[tx_id].item_id
        original_type == db.transactions[tx_id].type
        original_qty == db.transactions[tx_id].quantity
        reverse_type == IF original_type \in {"IN", "REVERSAL-IN"}
                          THEN "REVERSAL-OUT" ELSE "REVERSAL-IN"
        stock_change == IF original_type \in {"IN", "REVERSAL-IN"}
                          THEN -original_qty ELSE original_qty
    IN  IF stock_change < 0
           /\ (item_id \notin DOMAIN db.inventory
               \/ db.inventory[item_id].current_stock < original_qty)
          THEN [ok |-> FALSE, db |-> db]
        ELSE
          LET updated == [db EXCEPT !.inventory =
                            update_stock(@, item_id, stock_change)]
          IN  [ok |-> TRUE,
               db |-> insert_tx(updated, item_id, reverse_type, original_qty,
                               reversal_details(db.transactions[tx_id].details))]

\* reverse_transaction that marks the original row instead of leaving it
reverse_transaction_marking(db, tx_id) ==
  IF tx_id \notin DOMAIN db.transactions
    THEN [ok |-> FALSE, db |-> db]
  ELSE
    LET item_id == db.transactions[tx_id].item_id
        original_type == db.transactions[tx_id].type
        original_qty == db.transactions[tx_id].quantity
    IN  IF original_type \notin {"IN", "OUT"}
          THEN [ok |-> FALSE, db |-> db]
        ELSE
          LET reverse_type == IF original_type = "IN" THEN "REVERSAL-OUT"
                                                      ELSE "REVERSAL-IN"
              stock_change == IF original_type = "IN" THEN -original_qty
                                                      ELSE original_qty
          IN  IF stock_change < 0
                 /\ (item_id \notin DOMAIN db.inventory
                     \/ db.inventory[item_id].current_stock < original_qty)
                THEN [ok |-> FALSE, db |-> db]
              ELSE
                LET updated == [db EXCEPT
                                  !.inventory =
                                     update_stock(@, item_id, stock_change),
                                  !.transactions[tx_id].details =
                                     reversal_details(@)]
                IN  [ok |-> TRUE,
                     db |-> insert_tx(updated, item_id, reverse_type, original_qty,
                                     reversal_details(
                                       db.transactions[tx_id].details))]

\* reverse_transaction without step 3, the stock check
reverse_transaction_unchecked(db, tx_id) ==
  IF tx_id \notin DOMAIN db.transactions
    THEN [ok |-> FALSE, db |-> db]
  ELSE
    LET item_id == db.transactions[tx_id].item_id
        original_type == db.transactions[tx_id].type
        original_qty == db.transactions[tx_id].quantity
    IN  IF original_type \notin {"IN", "OUT"}
          THEN [ok |-> FALSE, db |-> db]
        ELSE
          LET reverse_type == IF original_type = "IN" THEN "REVERSAL-OUT"
                                                      ELSE "REVERSAL-IN"
              stock_change == IF original_type = "IN" THEN -original_qty
                                                      ELSE original_qty
              updated == [db EXCEPT !.inventory =
                            update_stock(@, item_id, stock_change)]
          IN  [ok |-> TRUE,
               db |-> insert_tx(updated, item_id, reverse_type, original_qty,
                               reversal_details(db.transactions[tx_id].details))]

\* reverse_transaction that refuses a row for which a compensating row (same
\* item and quantity, the opposite REVERSAL type) was already written
reverse_transaction_once(db, tx_id) ==
  IF tx_id \notin DOMAIN db.transactions
       \/ db.transactions[tx_id].type \notin {"IN", "OUT"}
    THEN [ok |-> FALSE, db |-> db]
  ELSE
    LET row == db.transactions[tx_id]
        reverse_type == IF row.type = "IN" THEN "REVERSAL-OUT" ELSE "REVERSAL-IN"
        stock_change == IF row.type = "IN" THEN -row.quantity ELSE row.quantity
    IN  IF \/ \E r \in DOMAIN db.transactions :
                 /\ db.transactions[r].type = reverse_type
                 /\ db.transactions[r].item_id = row.item_id
                 /\ db.transactions[r].quantity = row.quantity
           \/ /\ stock_change < 0
              /\ (row.item_id \notin DOMAIN db.inventory
                  \/ db.inventory[row.item_id].current_stock < row.quantity)
          THEN [ok |-> FALSE, db |-> db]
          ELSE [ok |-> TRUE,
                db |-> insert_tx([db EXCEPT !.inventory =
                                    update_stock(@, row.item_id, stock_change)],
                                 row.item_id, reverse_type, row.quantity,
                                 reversal_details(row.details))]

reverse_transaction(db, tx_id) ==
  IF tx_id \notin DOMAIN db.transactions
    THEN [ok |-> FALSE, db |-> db]
  ELSE
    LET item_id == db.transactions[tx_id].item_id
        original_type == db.transactions[tx_id].type
        original_qty == db.transactions[tx_id].quantity
    IN  IF original_type \notin {"IN", "OUT"}
          THEN [ok |-> FALSE, db |-> db]
        ELSE
          LET reverse_type == IF original_type = "IN" THEN "REVERSAL-OUT"
                                                      ELSE "REVERSAL-IN"
              stock_change == IF original_type = "IN" THEN -original_qty
                                                      ELSE original_qty
          IN  IF stock_change < 0
                 /\ (item_id \notin DOMAIN db.inventory
                     \/ db.inventory[item_id].current_stock < original_qty)
                THEN [ok |-> FALSE, db |-> db]
              ELSE
                LET updated == [db EXCEPT !.inventory =
                                  update_stock(@, item_id, stock_change)]
                IN  [ok |-> TRUE,
                     db |-> insert_tx(updated, item_id, reverse_type, original_qty,
                                     reversal_details(
                                       db.transactions[tx_id].details))]

(* -------------------------- delete_transaction ------------------------- *)
\* step 2 of delete_transaction: the stock change chosen for each type
delete_stock_change(tx_type, quantity) ==
  CASE tx_type = "IN" -> -quantity
    [] tx_type = "OUT" -> quantity
    [] tx_type = "REVERSAL-IN" -> quantity
    [] tx_type = "REVERSAL-OUT" -> -quantity

delete_transaction(db, tx_id) ==
  IF tx_id \notin DOMAIN db.transactions
    THEN [ok |-> FALSE, db |-> db]
  ELSE
    LET item_id == db.transactions[tx_id].item_id
        tx_type == db.transactions[tx_id].type
        quantity == db.transactions[tx_id].quantity
    IN  IF tx_type \notin CheckTypes
          THEN [ok |-> FALSE, db |-> db]
        ELSE
          LET stock_change == delete_stock_change(tx_type, quantity)
          IN  IF stock_change < 0
                 /\ (item_id \notin DOMAIN db.inventory
                     \/ db.inventory[item_id].current_stock + stock_change < 0)
                THEN [ok |-> FALSE, db |-> db]
              ELSE
                [ok |-> TRUE,
                 db |-> [db EXCEPT
                           !.inventory = update_stock(@, item_id, stock_change),
                           !.transactions =
                              [t \in DOMAIN db.transactions \ {tx_id} |->
                                 db.transactions[t]]]]

(* -------------------------- update_transaction ------------------------- *)
\* update_transaction that applies the new quantity without undoing the old
update_transaction_no_undo(db, tx_id, quantity, details) ==
  IF tx_id \notin DOMAIN db.transactions
    THEN [ok |-> FALSE, db |-> db]
  ELSE
    LET item_id == db.transactions[tx_id].item_id
        tx_type == db.transactions[tx_id].type
        original_quantity == db.transactions[tx_id].quantity
    IN  IF startswith_REVERSAL(tx_type)
          THEN [ok |-> FALSE, db |-> db]
        ELSE
          LET undo_change == IF tx_type = "IN" THEN -original_quantity
                                               ELSE original_quantity
              apply_change == IF tx_type = "IN" THEN quantity ELSE -quantity
              total_stock_change == apply_change
          IN  IF total_stock_change < 0
                 /\ (item_id \notin DOMAIN db.inventory
                     \/ db.inventory[item_id].current_stock
                          + total_stock_change < 0)
                THEN [ok |-> FALSE, db |-> db]
              ELSE
                [ok |-> TRUE,
                 db |-> [db EXCEPT
                           !.inventory =
                              update_stock(@, item_id, total_stock_change),
                           !.transactions[tx_id].quantity = quantity,
                           !.transactions[tx_id].details = details]]

\* update_transaction without the refusal of REVERSAL rows
update_transaction_any_type(db, tx_id, quantity, details) ==
  IF tx_id \notin DOMAIN db.transactions
    THEN [ok |-> FALSE, db |-> db]
  ELSE
    LET item_id == db.transactions[tx_id].item_id
        tx_type == db.transactions[tx_id].type
        original_quantity == db.transactions[tx_id].quantity
    IN  IF FALSE
          THEN [ok |-> FALSE, db |-> db]
        ELSE
          LET undo_change == IF tx_type = "IN" THEN -original_quantity
                                               ELSE original_quantity
              apply_change == IF tx_type = "IN" THEN quantity ELSE -quantity
              total_stock_change == undo_change + apply_change
          IN  IF total_stock_change < 0
                 /\ (item_id \notin DOMAIN db.inventory
                     \/ db.inventory[item_id].current_stock
                          + total_stock_change < 0)
                THEN [ok |-> FALSE, db |-> db]
              ELSE
                [ok |-> TRUE,
                 db |-> [db EXCEPT
                           !.inventory =
                              update_stock(@, item_id, total_stock_change),
                           !.transactions[tx_id].quantity = quantity,
                           !.transactions[tx_id].details = details]]

\* update_transaction without step 3, the stock check
update_transaction_unchecked(db, tx_id, quantity, details) ==
  IF tx_id \notin DOMAIN db.transactions
    THEN [ok |-> FALSE, db |-> db]
  ELSE
    LET item_id == db.transactions[tx_id].item_id
        tx_type == db.transactions[tx_id].type
        original_quantity == db.transactions[tx_id].quantity
    IN  IF startswith_REVERSAL(tx_type)
          THEN [ok |-> FALSE, db |-> db]
        ELSE
          LET undo_change == IF tx_type = "IN" THEN -original_quantity
                                               ELSE original_quantity
              apply_change == IF tx_type = "IN" THEN quantity ELSE -quantity
              total_stock_change == undo_change + apply_change
          IN  IF FALSE
                 /\ (item_id \notin DOMAIN db.inventory
                     \/ db.inventory[item_id].current_stock
                          + total_stock_change < 0)
                THEN [ok |-> FALSE, db |-> db]
              ELSE
                [ok |-> TRUE,
                 db |-> [db EXCEPT
                           !.inventory =
                              update_stock(@, item_id, total_stock_change),
                           !.transactions[tx_id].quantity = quantity,
                           !.transactions[tx_id].details = details]]

\* update_transaction whose UPDATE of inventory has no WHERE id = ?
update_transaction_unscoped(db, tx_id, quantity, details) ==
  IF tx_id \notin DOMAIN db.transactions
       \/ startswith_REVERSAL(db.transactions[tx_id].type)
    THEN [ok |-> FALSE, db |-> db]
  ELSE
    LET row == db.transactions[tx_id]
        total_stock_change == IF row.type = "IN" THEN quantity - row.quantity
                                                 ELSE row.quantity - quantity
    IN  IF total_stock_change < 0
           /\ (row.item_id \notin DOMAIN db.inventory
               \/ db.inventory[row.item_id].current_stock
                    + total_stock_change < 0)
          THEN [ok |-> FALSE, db |-> db]
          ELSE [ok |-> TRUE,
                db |-> [db EXCEPT
                          !.inventory =
                             [i \in DOMAIN @ |->
                                [@[i] EXCEPT !.current_stock =
                                               @ + total_stock_change]],
                          !.transactions[tx_id].quantity = quantity,
                          !.transactions[tx_id].details = details]]

update_transaction(db, tx_id, quantity, details) ==
  IF tx_id \notin DOMAIN db.transactions
    THEN [ok |-> FALSE, db |-> db]
  ELSE
    LET item_id == db.transactions[tx_id].item_id
        tx_type == db.transactions[tx_id].type
        original_quantity == db.transactions[tx_id].quantity
    IN  IF startswith_REVERSAL(tx_type)
          THEN [ok |-> FALSE, db |-> db]
        ELSE
          LET undo_change == IF tx_type = "IN" THEN -original_quantity
                                               ELSE original_quantity
              apply_change == IF tx_type = "IN" THEN quantity ELSE -quantity
              total_stock_change == undo_change + apply_change
          IN  IF total_stock_change < 0
                 /\ (item_id \notin DOMAIN db.inventory
                     \/ db.inventory[item_id].current_stock
                          + total_stock_change < 0)
                THEN [ok |-> FALSE, db |-> db]
              ELSE
                [ok |-> TRUE,
                 db |-> [db EXCEPT
                           !.inventory =
                              update_stock(@, item_id, total_stock_change),
                           !.transactions[tx_id].quantity = quantity,
                           !.transactions[tx_id].details = details]]

(* ---------------- BatchTransactionDialog (the batch dialog) ------------ *)
\* _validate_row against the dialog's inventory_map: the item exists, the
\* quantity is positive and, for OUT, not above the item's current stock
validate_row(inv, type, row) ==
  /\ row.item_id \in DOMAIN inv
  /\ row.quantity > 0
  /\ (type = "OUT" => row.quantity <= inv[row.item_id].current_stock)

\* the loop of accept_action: one record_transaction call, each with its own
\* connection and commit, per table row; failed holds the positions of the
\* rows appended to failed_transactions
RECURSIVE accept_rows(_, _, _, _, _, _)
accept_rows(db, type, rows, r, successful_count, failed) ==
  IF r > Len(rows)
    THEN [db |-> db, successful_count |-> successful_count, failed |-> failed]
  ELSE
    IF rows[r].item_id \notin DOMAIN db.inventory
      THEN accept_rows(db, type, rows, r + 1, successful_count,
                       Append(failed, r))
    ELSE
      LET res == record_transaction(db, rows[r].item_id, type, rows[r].quantity)
      IN  IF res.ok
            THEN accept_rows(res.db, type, rows, r + 1, successful_count + 1,
                             failed)
            ELSE accept_rows(res.db, type, rows, r + 1, successful_count,
                             Append(failed, r))

(* ------------------------------ state ---------------------------------- *)
Lines == UNION {[1..n -> [item_id : ItemIds, quantity : Quantities,
                          error : {FALSE}]] : n \in 1..MaxLines}

\* items_to_import: the rows import_from_csv hands to batch_import_inventory;
\* their current_stock column is absent (0) or holds a positive number
ImportItems ==
  UNION {[1..n -> [name : Names, reference : References,
                   current_stock : {0, MaxInitialStock}]] : n \in 1..MaxImport}

NoCall == [op |-> "none", ok |-> FALSE, item_id |-> 0, type |-> "",
           quantity |-> 0, tx_id |-> 0, lines |-> <<>>, failed |-> <<>>,
           successful_count |-> 0, name |-> 0, reference |-> 0]

\* the transactions list a caller of batch_record_transactions still holds,
\* as the call left its dicts, with the type it passed
NoRequest == [transaction_type |-> "", txl |-> <<>>]

\* the application instances running record_transaction(OUT) on connections
\* of their own: where each one is in the function, and its arguments
Instances == 1..MaxInstances

Idle == [pc |-> "idle", item_id |-> 0, quantity |-> 0]

\* initialize_all_schema on a fresh file: both tables empty
Init ==
  /\ inventory = <<>>
  /\ transactions = <<>>
  /\ tx_seq = 0
  /\ last = NoCall
  /\ request = NoRequest
  /\ instances = [p \in Instances |-> Idle]

SetDb(db) ==
  /\ inventory' = db.inventory
  /\ transactions' = db.transactions
  /\ tx_seq' = db.tx_seq

CurDb == Db(inventory, transactions, tx_seq)

\* insert_inventory_item with a name and a reference no item uses (those
\* numbered like the new id)
InsertInventoryItem(stocks) ==
  \E current_stock \in stocks :
    LET id == next_rowid(DOMAIN inventory)
        res == insert_inventory_item(CurDb, id, id, current_stock)
    IN  /\ id <= MaxItems
        /\ SetDb(res.db)
        /\ UNCHANGED <<request, instances>>
        /\ last' = [NoCall EXCEPT !.op = "insert_item", !.ok = (res.id # 0),
                                  !.item_id = res.id, !.name = id,
                                  !.reference = id]

\* insert_inventory_item with any name and reference
InsertAnyInventoryItem ==
  \E name \in Names, reference \in References, current_stock \in InitialStocks :
    LET res == insert_inventory_item(CurDb, name, reference, current_stock)
    IN  /\ DOMAIN res.db.inventory \subseteq ItemIds
        /\ SetDb(res.db)
        /\ UNCHANGED <<request, instances>>
        /\ last' = [NoCall EXCEPT !.op = "insert_item", !.ok = (res.id # 0),
                                  !.item_id = res.id, !.name = name,
                                  !.reference = reference]

UpdateInventoryItem ==
  \E item_id \in ItemIds, name \in Names, reference \in References :
    LET res == update_inventory_item(CurDb, item_id, name, reference)
    IN  /\ SetDb(res.db)
        /\ UNCHANGED <<request, instances>>
        /\ last' = [NoCall EXCEPT !.op = "update_item", !.ok = res.ok,
                                  !.item_id = item_id, !.name = name,
                                  !.reference = reference]

DeleteInventoryItem ==
  \E item_id \in ItemIds :
    LET res == delete_inventory_item(CurDb, item_id)
    IN  /\ SetDb(res.db)
        /\ UNCHANGED <<request, instances>>
        /\ last' = [NoCall EXCEPT !.op = "delete_item", !.ok = res.ok,
                                  !.item_id = item_id]

BatchImportInventory ==
  \E items \in ImportItems :
    LET res == batch_import_inventory(CurDb, items, 1,
                 [inserted |-> 0, updated |-> 0, failed |-> 0])
    IN  /\ DOMAIN res.db.inventory \subseteq ItemIds
        /\ SetDb(res.db)
        /\ UNCHANGED <<request, instances>>
        /\ last' = [NoCall EXCEPT !.op = "import",
                                  !.ok = (res.stats.failed = 0),
                                  !.successful_count =
                                     res.stats.inserted + res.stats.updated]

RecordTransaction(types, items, quantities) ==
  \E item_id \in items, type \in types, quantity \in quantities :
    /\ tx_seq < MaxTx
    /\ LET res == record_transaction(CurDb, item_id, type, quantity)
       IN  /\ SetDb(res.db)
           /\ UNCHANGED <<request, instances>>
           /\ last' = [NoCall EXCEPT !.op = "record", !.ok = res.ok,
                                     !.item_id = item_id, !.type = type,
                                     !.quantity = quantity]

\* a call with a freshly built list, one of requests; keeps tells whether the
\* caller holds on to the list for a later call
BatchRecordTransactions(keeps, requests) ==
  \E transaction_type \in BatchTypes, txl \in requests :
    /\ tx_seq < MaxTx
    /\ LET res == batch_record_transactions(CurDb, transaction_type, txl)
       IN  /\ res.db.tx_seq <= MaxTx
           /\ SetDb(res.db)
           /\ UNCHANGED instances
           /\ request' = IF keeps
                            THEN [transaction_type |-> transaction_type,
                                  txl |-> res.txl]
                            ELSE NoRequest
           /\ last' = [NoCall EXCEPT !.op = "batch",
                                     !.ok = (res.successful_count > 0),
                                     !.type = upper(transaction_type),
                                     !.lines = txl, !.failed = res.failed,
                                     !.successful_count = res.successful_count]

\* a second call with the list and the type of the call before
RetryBatchRecordTransactions ==
  /\ request # NoRequest
  /\ tx_seq < MaxTx
  /\ LET res == batch_record_transactions(CurDb, request.transaction_type,
                                          request.txl)
     IN  /\ res.db.tx_seq <= MaxTx
         /\ SetDb(res.db)
         /\ UNCHANGED instances
         /\ request' = [request EXCEPT !.txl = res.txl]
         /\ last' = [NoCall EXCEPT !.op = "retry",
                                   !.ok = (res.successful_count > 0),
                                   !.type = upper(request.transaction_type),
                                   !.lines = request.txl, !.failed = res.failed,
                                   !.successful_count = res.successful_count]

ReverseTransaction ==
  \E tx_id \in TxIds :
    /\ tx_seq < MaxTx
    /\ LET res == reverse_transaction(CurDb, tx_id)
       IN  /\ SetDb(res.db)
           /\ UNCHANGED <<request, instances>>
           /\ last' = [NoCall EXCEPT !.op = "reverse", !.ok = res.ok,
                                     !.tx_id = tx_id]

DeleteTransaction ==
  \E tx_id \in TxIds :
    /\ LET res == delete_transaction(CurDb, tx_id)
       IN  /\ SetDb(res.db)
           /\ UNCHANGED <<request, instances>>
           /\ last' = [NoCall EXCEPT !.op = "delete", !.ok = res.ok,
                                     !.tx_id = tx_id]

UpdateTransaction ==
  \E tx_id \in TxIds, quantity \in Quantities, details \in Details :
    /\ LET res == update_transaction(CurDb, tx_id, quantity, details)
       IN  /\ SetDb(res.db)
           /\ UNCHANGED <<request, instances>>
           /\ last' = [NoCall EXCEPT !.op = "update", !.ok = res.ok,
                                     !.tx_id = tx_id, !.quantity = quantity]

\* the OK button is enabled only when every row passed _validate_row
AcceptAction ==
  \E type \in DialogTypes, rows \in Lines :
    /\ tx_seq < MaxTx
    /\ \A r \in 1..Len(rows) : validate_row(inventory, type, rows[r])
    /\ LET res == accept_rows(CurDb, type, rows, 1, 0, <<>>)
       IN  /\ res.db.tx_seq <= MaxTx
           /\ SetDb(res.db)
           /\ UNCHANGED <<request, instances>>
           /\ last' = [NoCall EXCEPT !.op = "accept",
                                     !.ok = (res.successful_count > 0),
                                     !.type = type, !.lines = rows,
                                     !.failed = res.failed,
                                     !.successful_count = res.successful_count]

\* record_transaction(OUT) of instance p up to its stock check: the SELECT
\* runs outside any transaction (sqlite3 opens one at the first UPDATE), and
\* the function returns False there or goes on to its writes
RecordSelect(p) ==
  \E item_id \in DOMAIN inventory, quantity \in Quantities :
    /\ instances[p].pc = "idle"
    /\ tx_seq < MaxTx
    /\ LET passed == inventory[item_id].current_stock >= quantity
       IN  /\ instances' = [instances EXCEPT ![p] =
                              IF passed
                                THEN [pc |-> "selected", item_id |-> item_id,
                                      quantity |-> quantity]
                                ELSE Idle]
           /\ last' = [NoCall EXCEPT !.op = IF passed THEN "select" ELSE "record",
                                     !.ok = FALSE, !.item_id = item_id,
                                     !.type = "OUT", !.quantity = quantity]
    /\ UNCHANGED <<inventory, transactions, tx_seq, request>>

\* the rest of record_transaction(OUT) of instance p: UPDATE, INSERT and
\* commit, one write transaction of its connection
RecordWrite(p) ==
  /\ instances[p].pc = "selected"
  /\ LET item_id == instances[p].item_id
         quantity == instances[p].quantity
         updated == Db(update_stock(inventory, item_id, -quantity),
                       transactions, tx_seq)
     IN  /\ SetDb(insert_tx(updated, item_id, "OUT", quantity, "entered"))
         /\ last' = [NoCall EXCEPT !.op = "record", !.ok = TRUE,
                                   !.item_id = item_id, !.type = "OUT",
                                   !.quantity = quantity]
  /\ instances' = [instances EXCEPT ![p] = Idle]
  /\ UNCHANGED request

\* the application: every operation as its pages and dialogs issue it.  The
\* dialogs offer the existing items and are constructed with IN or OUT; every
\* item is created with stock 0.
Next ==
  \/ InsertInventoryItem({0})
  \/ DeleteInventoryItem
  \/ RecordTransaction(DialogTypes, DOMAIN inventory, Quantities)
  \/ AcceptAction
  \/ ReverseTransaction
  \/ DeleteTransaction
  \/ UpdateTransaction

Spec == Init /\ [][Next]_vars

\* db_manager called directly: any item id and any type string, up to
\* MaxLedgerTx rows
NextApi ==
  \/ InsertInventoryItem({0})
  \/ DeleteInventoryItem
  \/ RecordTransaction(RecordTypes, ItemIds, Quantities) /\ tx_seq' <= MaxLedgerTx
  \/ BatchRecordTransactions(FALSE, Lines) /\ tx_seq' <= MaxLedgerTx
  \/ ReverseTransaction /\ tx_seq' <= MaxLedgerTx
  \/ DeleteTransaction
  \/ UpdateTransaction

SpecApi == Init /\ [][NextApi]_vars

\* record_transaction alone, for any item id, over a catalog that changes
NextRecord ==
  \/ InsertInventoryItem({0})
  \/ DeleteInventoryItem
  \/ RecordTransaction(DialogTypes, ItemIds, Quantities)

SpecRecord == Init /\ [][NextRecord]_vars

\* batch_record_transactions as a function of the database and its request:
\* the database is any catalog insert_inventory_item builds on a fresh file,
\* each item with its initial stock, and the function is applied to it once
InitBatch ==
  /\ \E n \in 0..MaxItems :
       \E stocks \in [1..n -> InitialStocks] :
         inventory = [i \in 1..n |-> [name |-> i, reference |-> i,
                                      current_stock |-> stocks[i]]]
  /\ transactions = <<>>
  /\ tx_seq = 0
  /\ last = NoCall
  /\ request = NoRequest
  /\ instances = [p \in Instances |-> Idle]

NextBatch == last = NoCall /\ BatchRecordTransactions(FALSE, Lines)

SpecBatch == InitBatch /\ [][NextBatch]_vars

\* rows entered through TransactionDialog and reversed from the transaction
\* page
NextReverse ==
  \/ InsertInventoryItem({0})
  \/ RecordTransaction(DialogTypes, DOMAIN inventory, Quantities)
  \/ ReverseTransaction

SpecReverse == Init /\ [][NextReverse]_vars

\* a catalog insert_inventory_item built on a fresh file, every item with
\* MaxInitialStock in stock
InitStocked ==
  /\ \E n \in 0..MaxItems :
       inventory = [i \in 1..n |-> [name |-> i, reference |-> i,
                                    current_stock |-> MaxInitialStock]]
  /\ transactions = <<>>
  /\ tx_seq = 0
  /\ last = NoCall
  /\ request = NoRequest
  /\ instances = [p \in Instances |-> Idle]

\* rows entered through TransactionDialog for the items of such a catalog, and
\* reversed from the transaction page any number of times
NextReverseAgain ==
  \/ RecordTransaction(DialogTypes, DOMAIN inventory, Quantities)
  \/ ReverseTransaction

SpecReverseAgain == InitStocked /\ [][NextReverseAgain]_vars

\* the ledger as the transaction page edits it: rows entered through
\* TransactionDialog, then reversed or edited, up to MaxLedgerTx rows
NextLedger ==
  \/ InsertInventoryItem({0})
  \/ RecordTransaction(DialogTypes, DOMAIN inventory, Quantities) /\ tx_seq' <= MaxLedgerTx
  \/ ReverseTransaction /\ tx_seq' <= MaxLedgerTx
  \/ UpdateTransaction

SpecLedger == Init /\ [][NextLedger]_vars

\* the catalog as db_manager edits it, over items that have ledger rows
NextCatalog ==
  \/ InsertAnyInventoryItem
  \/ UpdateInventoryItem
  \/ BatchImportInventory
  \/ DeleteInventoryItem
  \/ RecordTransaction(DialogTypes, DOMAIN inventory, Quantities) /\ tx_seq' <= MaxLedgerTx

SpecCatalog == Init /\ [][NextCatalog]_vars

\* update_inventory_item and batch_import_inventory as functions of the
\* database: stock is received through TransactionDialog, up to MaxLedgerTx
\* rows, and then one catalog edit is applied to it
CatalogUnedited == last.op \notin {"update_item", "import"}

NextCatalogEdit ==
  \/ CatalogUnedited /\ InsertInventoryItem({0})
  \/ /\ CatalogUnedited
     /\ RecordTransaction({"IN"}, DOMAIN inventory, Quantities)
     /\ tx_seq' <= MaxLedgerTx
  \/ CatalogUnedited /\ UpdateInventoryItem
  \/ CatalogUnedited /\ BatchImportInventory

SpecCatalogEdit == Init /\ [][NextCatalogEdit]_vars

\* record_transaction called directly with any type string and any quantity,
\* up to MaxLedgerTx rows
NextRecordApi ==
  \/ InsertInventoryItem({0})
  \/ /\ RecordTransaction(RecordTypes, DOMAIN inventory, ApiQuantities)
     /\ tx_seq' <= MaxLedgerTx

SpecRecordApi == Init /\ [][NextRecordApi]_vars

\* record_transaction with the dialogs' quantities and a type the CHECK
\* constraint rejects next to IN and OUT, up to MaxLedgerTx rows
NextRecordFault ==
  \/ InsertInventoryItem({0})
  \/ /\ RecordTransaction(DialogTypes \cup {"REVERSAL"}, DOMAIN inventory,
                          Quantities)
     /\ tx_seq' <= MaxLedgerTx

SpecRecordFault == Init /\ [][NextRecordFault]_vars

\* a batch call on a catalog with initial stocks, stock received through
\* record_transaction, and the same list passed again
NextRetry ==
  \/ BatchRecordTransactions(TRUE, Lines)
  \/ RecordTransaction({"IN"}, DOMAIN inventory, Quantities)
  \/ RetryBatchRecordTransactions

SpecRetry == InitBatch /\ [][NextRetry]_vars

\* MaxInstances application instances on one database file, each entering OUT
\* transactions for the items of a catalog with initial stocks
NextInstances ==
  \/ \E p \in Instances : RecordSelect(p)
  \/ \E p \in Instances : RecordWrite(p)

SpecInstances == InitBatch /\ [][NextInstances]_vars

\* the operations that append or delete transaction rows, up to MaxLedgerTx
\* ids, all with quantity 1; a batch request names one item
UnitLines ==
  {txl \in Lines : \A k \in 1..Len(txl) : /\ txl[k].quantity = 1
                                          /\ txl[k].item_id = txl[1].item_id}

NextIds ==
  \/ InsertInventoryItem({0})
  \/ /\ RecordTransaction(DialogTypes, DOMAIN inventory, {1})
     /\ tx_seq' <= MaxLedgerTx
  \/ BatchRecordTransactions(FALSE, UnitLines) /\ tx_seq' <= MaxLedgerTx
  \/ ReverseTransaction /\ tx_seq' <= MaxLedgerTx
  \/ DeleteTransaction

SpecIds == Init /\ [][NextIds]_vars

(* ------------------------- ledger arithmetic --------------------------- *)
\* the sign table of the ledger: the stock delta a row of this type and
\* quantity stands for
signed_effect(type, quantity) ==
  IF type \in {"IN", "REVERSAL-IN"} THEN quantity ELSE -quantity

\* sum of the signed effects of the surviving rows 1..n of one item
RECURSIVE ledger_sum(_, _, _)
ledger_sum(txs, item_id, n) ==
  IF n = 0 THEN 0
  ELSE ledger_sum(txs, item_id, n - 1)
       + (IF n \in DOMAIN txs /\ txs[n].item_id = item_id
            THEN signed_effect(txs[n].type, txs[n].quantity)
            ELSE 0)

\* quantity the lines before line k of a batch request for one item
RECURSIVE earlier_quantity(_, _, _)
earlier_quantity(txl, item_id, k) ==
  IF k <= 1 THEN 0
  ELSE earlier_quantity(txl, item_id, k - 1)
       + (IF txl[k - 1].item_id = item_id THEN txl[k - 1].quantity ELSE 0)

\* line k of an OUT batch asks for more than the item's projected stock
exceeds_projected(inv, txl, k) ==
  /\ txl[k].item_id \in DOMAIN inv
  /\ txl[k].quantity > inv[txl[k].item_id].current_stock
                         - earlier_quantity(txl, txl[k].item_id, k)

exceeding_lines(inv, txl) == {k \in 1..Len(txl) : exceeds_projected(inv, txl, k)}

first_exceeding(inv, txl) ==
  CHOOSE k \in exceeding_lines(inv, txl) :
    \A j \in exceeding_lines(inv, txl) : k <= j

unknown_lines(inv, txl) == {k \in 1..Len(txl) : txl[k].item_id \notin DOMAIN inv}

Range(f) == {f[x] : x \in DOMAIN f}

new_rows == DOMAIN transactions' \ DOMAIN transactions

(* ------------------------------- claims -------------------------------- *)

\* C1: ledger invariant I1.  Every item's current_stock equals the sum of the
\* signed effects (IN +q, OUT -q, REVERSAL-IN +q, REVERSAL-OUT -q) of its
\* surviving transaction rows.  Every item here is created with stock 0.
C1_LedgerInvariant ==
  \A i \in DOMAIN inventory :
    inventory[i].current_stock = ledger_sum(transactions, i, tx_seq)

\* C2: no operation leaves the current_stock of any item below 0.
C2_NoNegativeStock ==
  \A i \in DOMAIN inventory : inventory[i].current_stock >= 0

\* C3: a successful delete_transaction changes the stock of the row's item by
\* exactly the negation of the row's signed effect and removes the row.
C3_DeleteExactInverse ==
  [][(last'.op = "delete" /\ last'.ok) =>
       LET row == transactions[last'.tx_id]
       IN  /\ last'.tx_id \notin DOMAIN transactions'
           /\ row.item_id \in DOMAIN inventory =>
                inventory'[row.item_id].current_stock
                  = inventory[row.item_id].current_stock
                    - signed_effect(row.type, row.quantity)]_vars

\* C4: delete_transaction of a row whose inverse effect is negative and would
\* take the stock below 0 fails and leaves the stock and the row as they were.
C4_DeleteRefusal ==
  [][(/\ last'.op = "delete"
      /\ last'.tx_id \in DOMAIN transactions
      /\ LET row == transactions[last'.tx_id]
         IN  /\ row.item_id \in DOMAIN inventory
             /\ - signed_effect(row.type, row.quantity) < 0
             /\ inventory[row.item_id].current_stock
                  - signed_effect(row.type, row.quantity) < 0)
     => (/\ ~ last'.ok
         /\ inventory' = inventory
         /\ transactions' = transactions)]_vars

\* C5: record_transaction of type OUT succeeds exactly when the item exists
\* and current_stock >= quantity, and then takes quantity off the stock
\* (quantity equal to the stock leaves 0); when it fails neither the stock nor
\* the rows change.  Type IN on an existing item always succeeds.
C5_RecordOutStockCheck ==
  [][last'.op = "record" =>
       LET i == last'.item_id
           q == last'.quantity
           sufficient == /\ i \in DOMAIN inventory
                         /\ inventory[i].current_stock >= q
       IN  /\ last'.type = "OUT" =>
                /\ last'.ok <=> sufficient
                /\ last'.ok =>
                     inventory'[i].current_stock = inventory[i].current_stock - q
                /\ ~ last'.ok =>
                     inventory' = inventory /\ transactions' = transactions
           /\ (last'.type = "IN" /\ i \in DOMAIN inventory) => last'.ok]_vars

\* an OUT of exactly the whole stock has just succeeded
C5_Witness ==
  /\ last.op = "record" /\ last.type = "OUT" /\ last.ok
  /\ last.item_id \in DOMAIN inventory
  /\ inventory[last.item_id].current_stock = 0

\* C6: record_transaction with an item_id that is not in the catalog fails,
\* for every type, and appends no transaction row.
C6_RecordUnknownItemFails ==
  [][(last'.op = "record" /\ last'.item_id \notin DOMAIN inventory) =>
       (~ last'.ok /\ transactions' = transactions)]_vars

\* C7: an OUT batch with a line that asks for more than the item's projected
\* stock changes no current_stock, appends no row and has successful_count 0.
C7_BatchAbortUnchanged ==
  [][(/\ last'.op = "batch" /\ last'.type = "OUT"
      /\ exceeding_lines(inventory, last'.lines) # {})
     => (/\ inventory' = inventory
         /\ transactions' = transactions
         /\ tx_seq' = tx_seq
         /\ last'.successful_count = 0)]_vars

\* a two-line OUT batch over two items has aborted on its second line after
\* its first line passed the check
C7_Witness ==
  /\ last.op = "batch" /\ last.type = "OUT" /\ Len(last.lines) = 2
  /\ last.lines[1].item_id # last.lines[2].item_id
  /\ last.lines[1].item_id \in DOMAIN inventory
  /\ last.lines[2].item_id \in DOMAIN inventory
  /\ last.lines[1].quantity <= inventory[last.lines[1].item_id].current_stock
  /\ last.lines[2].quantity > inventory[last.lines[2].item_id].current_stock
  /\ last.successful_count = 0

\* C8 as stated: when an OUT batch aborts for insufficient stock, every line
\* of the batch is in failed_transactions.
C8_AbortReportsEveryLine ==
  [][(/\ last'.op = "batch" /\ last'.type = "OUT"
      /\ exceeding_lines(inventory, last'.lines) # {})
     => \A k \in 1..Len(last'.lines) : k \in Range(last'.failed)]_vars

\* C8 amended: when an OUT batch aborts for insufficient stock,
\* failed_transactions holds, in line order, the unknown-item lines that
\* precede the first insufficient line and then that line, and no other line.
C8_AbortReportsInsufficientLine ==
  [][(/\ last'.op = "batch" /\ last'.type = "OUT"
      /\ exceeding_lines(inventory, last'.lines) # {})
     => LET k == first_exceeding(inventory, last'.lines)
            reported == {j \in unknown_lines(inventory, last'.lines) : j < k}
                          \cup {k}
        IN  /\ Range(last'.failed) = reported
            /\ Len(last'.failed) = Cardinality(reported)
            /\ \A a, b \in 1..Len(last'.failed) :
                 a < b => last'.failed[a] < last'.failed[b]]_vars

\* a two-line OUT batch has aborted on its second line and reports only it
C8_Witness ==
  /\ last.op = "batch" /\ last.type = "OUT" /\ Len(last.lines) = 2
  /\ last.lines[1].item_id \in DOMAIN inventory
  /\ ~ exceeds_projected(inventory, last.lines, 1)
  /\ exceeds_projected(inventory, last.lines, 2)
  /\ last.failed = <<2>>

\* C9: in a batch that is not aborted, a line whose item_id is unknown is in
\* failed_transactions, is not counted in successful_count and gets no
\* transaction row; every row written belongs to a counted line, and each
\* item's stock moves by exactly the effect of the rows written for it.
C9_UnknownLineNothingWritten ==
  [][(/\ last'.op = "batch"
      /\ ~ (last'.type = "OUT" /\ exceeding_lines(inventory, last'.lines) # {}))
     => (/\ unknown_lines(inventory, last'.lines) \subseteq Range(last'.failed)
         /\ last'.successful_count
              + Cardinality(unknown_lines(inventory, last'.lines))
              <= Len(last'.lines)
         /\ \A t \in new_rows : transactions'[t].item_id \in DOMAIN inventory
         /\ Cardinality(new_rows) = last'.successful_count
         /\ \A i \in DOMAIN inventory :
              inventory'[i].current_stock - inventory[i].current_stock
                = ledger_sum(transactions', i, tx_seq')
                  - ledger_sum(transactions, i, tx_seq))]_vars

\* C10: a batch confirmed through BatchTransactionDialog.accept_action in
\* which some line fails at commit time commits no line: no current_stock
\* changes and no transaction row is written.
C10_DialogBatchAllOrNothing ==
  [][(last'.op = "accept" /\ Len(last'.failed) > 0) =>
       (inventory' = inventory /\ transactions' = transactions)]_vars

\* C11: reverse_transaction on a row whose type starts with REVERSAL fails,
\* appends no row and leaves every item's current_stock unchanged.
C11_NoReversalOfReversal ==
  [][(/\ last'.op = "reverse"
      /\ last'.tx_id \in DOMAIN transactions
      /\ startswith_REVERSAL(transactions[last'.tx_id].type))
     => (/\ ~ last'.ok
         /\ transactions' = transactions
         /\ tx_seq' = tx_seq
         /\ inventory' = inventory)]_vars

\* reverse_transaction has just refused a REVERSAL-OUT row
C11_Witness ==
  /\ last.op = "reverse" /\ ~ last.ok
  /\ last.tx_id \in DOMAIN transactions
  /\ transactions[last.tx_id].type = "REVERSAL-OUT"

\* C12: a successful reverse_transaction appends exactly one row, for the
\* same item and quantity, of type REVERSAL-OUT for an IN original (stock
\* down by q) or REVERSAL-IN for an OUT original (stock up by q); the original
\* row and every other row and item stay as they were.
C12_ReversalAppendOnly ==
  [][(last'.op = "reverse" /\ last'.ok) =>
       /\ last'.tx_id \in DOMAIN transactions
       /\ LET row == transactions[last'.tx_id]
              q == row.quantity
          IN  /\ row.type \in {"IN", "OUT"}
              /\ tx_seq' = tx_seq + 1
              /\ DOMAIN transactions' = DOMAIN transactions \cup {tx_seq'}
              /\ \A t \in DOMAIN transactions : transactions'[t] = transactions[t]
              /\ transactions'[tx_seq'].item_id = row.item_id
              /\ transactions'[tx_seq'].quantity = q
              /\ transactions'[tx_seq'].type =
                    (IF row.type = "IN" THEN "REVERSAL-OUT" ELSE "REVERSAL-IN")
              /\ row.item_id \in DOMAIN inventory
              /\ DOMAIN inventory' = DOMAIN inventory
              /\ \A i \in DOMAIN inventory :
                    inventory'[i].current_stock =
                      inventory[i].current_stock
                        + (IF i # row.item_id THEN 0
                           ELSE IF row.type = "IN" THEN -q ELSE q)]_vars

\* an OUT row has just been reversed
C12_Witness ==
  /\ last.op = "reverse" /\ last.ok
  /\ transactions[last.tx_id].type = "OUT"
  /\ transactions[tx_seq].type = "REVERSAL-IN"

\* C13: reverse_transaction of an IN row of quantity q while the item's
\* current_stock is below q fails, appends no row and leaves the stock.
C13_ReverseInRefusal ==
  [][(/\ last'.op = "reverse"
      /\ last'.tx_id \in DOMAIN transactions
      /\ transactions[last'.tx_id].type = "IN"
      /\ transactions[last'.tx_id].item_id \in DOMAIN inventory
      /\ inventory[transactions[last'.tx_id].item_id].current_stock
           < transactions[last'.tx_id].quantity)
     => (/\ ~ last'.ok
         /\ transactions' = transactions
         /\ tx_seq' = tx_seq
         /\ inventory' = inventory)]_vars

\* the reversal of an IN row has just been refused with some of its goods
\* still in stock
C13_Witness ==
  /\ last.op = "reverse" /\ ~ last.ok
  /\ last.tx_id \in DOMAIN transactions
  /\ transactions[last.tx_id].type = "IN"
  /\ transactions[last.tx_id].item_id \in DOMAIN inventory
  /\ inventory[transactions[last.tx_id].item_id].current_stock > 0
  /\ inventory[transactions[last.tx_id].item_id].current_stock
       < transactions[last.tx_id].quantity

\* C14: a successful update_transaction of an IN or OUT row from q_old to
\* q_new moves the item's current_stock by effect(type, q_new) minus
\* effect(type, q_old) and stores q_new; no other row or item changes.
C14_UpdateRebalances ==
  [][(last'.op = "update" /\ last'.ok) =>
       /\ last'.tx_id \in DOMAIN transactions
       /\ LET row == transactions[last'.tx_id]
              delta == signed_effect(row.type, last'.quantity)
                         - signed_effect(row.type, row.quantity)
          IN  /\ row.type \in {"IN", "OUT"}
              /\ DOMAIN transactions' = DOMAIN transactions
              /\ transactions'[last'.tx_id].quantity = last'.quantity
              /\ transactions'[last'.tx_id].type = row.type
              /\ transactions'[last'.tx_id].item_id = row.item_id
              /\ \A t \in DOMAIN transactions \ {last'.tx_id} :
                    transactions'[t] = transactions[t]
              /\ DOMAIN inventory' = DOMAIN inventory
              /\ \A i \in DOMAIN inventory :
                    inventory'[i].current_stock =
                      inventory[i].current_stock
                        + (IF i = row.item_id THEN delta ELSE 0)]_vars

\* an OUT row has just been updated to quantity 1 against an IN row of 2,
\* which leaves 1 in stock
C14_Witness ==
  /\ last.op = "update" /\ last.ok /\ last.quantity = 1
  /\ transactions[last.tx_id].type = "OUT"
  /\ \E t \in DOMAIN transactions :
       /\ transactions[t].type = "IN"
       /\ transactions[t].quantity = 2
       /\ transactions[t].item_id = transactions[last.tx_id].item_id
  /\ inventory[transactions[last.tx_id].item_id].current_stock = 1

\* C15: update_transaction on a row whose type starts with REVERSAL fails and
\* changes neither a row nor any item's current_stock.
C15_NoUpdateOfReversal ==
  [][(/\ last'.op = "update"
      /\ last'.tx_id \in DOMAIN transactions
      /\ startswith_REVERSAL(transactions[last'.tx_id].type))
     => (/\ ~ last'.ok
         /\ transactions' = transactions
         /\ inventory' = inventory)]_vars

\* update_transaction has just refused a REVERSAL-OUT row
C15_Witness ==
  /\ last.op = "update" /\ ~ last.ok
  /\ last.tx_id \in DOMAIN transactions
  /\ transactions[last.tx_id].type = "REVERSAL-OUT"

\* C16: update_transaction of an IN or OUT row whose total stock change is
\* negative and would take current_stock below 0 fails; the row (quantity,
\* date, recipient_source, project_ref) and the stock stay as they were.
C16_UpdateRefusal ==
  [][(/\ last'.op = "update"
      /\ last'.tx_id \in DOMAIN transactions
      /\ LET row == transactions[last'.tx_id]
             delta == signed_effect(row.type, last'.quantity)
                        - signed_effect(row.type, row.quantity)
         IN  /\ row.type \in {"IN", "OUT"}
             /\ row.item_id \in DOMAIN inventory
             /\ delta < 0
             /\ inventory[row.item_id].current_stock + delta < 0)
     => (/\ ~ last'.ok
         /\ transactions' = transactions
         /\ inventory' = inventory)]_vars

\* lowering an IN row of 2 to 1 has just been refused: its goods were issued
C16_Witness ==
  /\ last.op = "update" /\ ~ last.ok /\ last.quantity = 1
  /\ last.tx_id \in DOMAIN transactions
  /\ transactions[last.tx_id].type = "IN"
  /\ transactions[last.tx_id].quantity = 2
  /\ transactions[last.tx_id].details = "entered"
  /\ inventory[transactions[last.tx_id].item_id].current_stock = 0

\* C17: in every reachable state no two items share a name and no two items
\* share a reference (insert_inventory_item and update_inventory_item reject
\* a name or reference that another item holds).
C17_CatalogUnique ==
  \A i, j \in DOMAIN inventory :
    i # j => /\ inventory[i].name # inventory[j].name
             /\ inventory[i].reference # inventory[j].reference

\* C18: update_inventory_item for an item_id that does not exist does not
\* return success and changes no item.
C18_UpdateItemNotFound ==
  [][(last'.op = "update_item" /\ last'.item_id \notin DOMAIN inventory) =>
       (~ last'.ok /\ inventory' = inventory)]_vars

\* C19: update_inventory_item and batch_import_inventory leave the
\* current_stock of every item that already exists, and every transaction
\* row, as they were.
C19_CatalogEditKeepsStock ==
  [][last'.op \in {"update_item", "import"} =>
       /\ \A i \in DOMAIN inventory :
            /\ i \in DOMAIN inventory'
            /\ inventory'[i].current_stock = inventory[i].current_stock
       /\ transactions' = transactions
       /\ tx_seq' = tx_seq]_vars

\* an import has just renamed, by its reference, an item that holds received
\* stock
C19_Witness ==
  /\ last.op = "import" /\ last.successful_count > 0
  /\ \E i \in DOMAIN inventory :
       /\ inventory[i].name # i
       /\ inventory[i].reference = i
       /\ inventory[i].current_stock = 2
       /\ \E t \in DOMAIN transactions : transactions[t].item_id = i

\* C20: a successful delete_inventory_item(id) leaves no transaction row of
\* that item and changes no other item or row; for an id that does not exist
\* it returns failure and changes nothing.
C20_DeleteItemCascade ==
  [][last'.op = "delete_item" =>
       LET id == last'.item_id
       IN  IF last'.ok
             THEN /\ id \in DOMAIN inventory
                  /\ DOMAIN inventory' = DOMAIN inventory \ {id}
                  /\ \A i \in DOMAIN inventory' : inventory'[i] = inventory[i]
                  /\ DOMAIN transactions' =
                       {t \in DOMAIN transactions : transactions[t].item_id # id}
                  /\ \A t \in DOMAIN transactions' :
                       transactions'[t] = transactions[t]
             ELSE /\ id \notin DOMAIN inventory
                  /\ inventory' = inventory
                  /\ transactions' = transactions]_vars

\* C21: in every reachable state every stored transaction row has a quantity
\* above 0, whatever quantity the caller passed.
C21_PositiveQuantity ==
  \A t \in DOMAIN transactions : transactions[t].quantity > 0

\* C23: a record_transaction whose INSERT is rejected after the stock UPDATE
\* (a type outside the CHECK constraint) fails and leaves every current_stock
\* and the transaction rows exactly as before the call.
C23_RecordRollsBack ==
  [][(last'.op = "record" /\ last'.type \notin CheckTypes) =>
       (/\ ~ last'.ok
        /\ inventory' = inventory
        /\ transactions' = transactions
        /\ tx_seq' = tx_seq)]_vars

\* a record of the rejected type REVERSAL has just failed on an item that
\* holds stock the UPDATE had taken from
C23_Witness ==
  /\ last.op = "record" /\ last.type = "REVERSAL" /\ ~ last.ok
  /\ last.item_id \in DOMAIN inventory
  /\ inventory[last.item_id].current_stock > 0
  /\ tx_seq > 0

\* C24: a successful record_transaction(item, T, q) moves current_stock by +q
\* for T in {IN, REVERSAL-IN} and by -q for T in {OUT, REVERSAL-OUT}, and a
\* type that takes stock succeeds only when the stock covers q.
C24_RecordSignTable ==
  [][(/\ last'.op = "record" /\ last'.ok
      /\ last'.quantity > 0
      /\ last'.item_id \in DOMAIN inventory)
     => (/\ inventory'[last'.item_id].current_stock =
              inventory[last'.item_id].current_stock
                + signed_effect(last'.type, last'.quantity)
         /\ signed_effect(last'.type, last'.quantity) < 0 =>
              inventory[last'.item_id].current_stock >= last'.quantity)]_vars

\* C22: safe retry.  When batch_record_transactions is called again with the
\* list of an OUT batch it aborted for insufficient stock, and every line's
\* item now has the stock the batch needs, every line is committed: one row
\* per line is written, successful_count is the number of lines, and each
\* item's stock falls by the quantities of its lines.
C22_RetryCommitsEveryLine ==
  [][(/\ last'.op = "retry" /\ last'.type = "OUT"
      /\ \E k \in 1..Len(request.txl) : request.txl[k].error
      /\ unknown_lines(inventory, request.txl) = {}
      /\ exceeding_lines(inventory, request.txl) = {})
     => (/\ last'.successful_count = Len(request.txl)
         /\ Cardinality(new_rows) = Len(request.txl)
         /\ \A i \in DOMAIN inventory :
              inventory'[i].current_stock
                = inventory[i].current_stock
                  - earlier_quantity(request.txl, i, Len(request.txl) + 1))]_vars

\* C25: with several instances running record_transaction(OUT) on the same
\* database, no write of an OUT row leaves the item's current_stock negative:
\* at most as many of the interleaved calls succeed as the stock allows.
C25_InterleavedOutNeverNegative ==
  [][(last'.op = "record" /\ last'.ok /\ last'.type = "OUT")
     => inventory'[last'.item_id].current_stock >= 0]_vars

\* quantity all the lines of a batch request ask of one item
item_total(txl, item_id) == earlier_quantity(txl, item_id, Len(txl) + 1)

\* C26: the pre-check of an OUT batch works on per-item sums.  When the lines
\* of some item sum to more than its current_stock the batch aborts (state
\* unchanged, successful_count 0), even if each line alone is within stock;
\* when every item's sum is within its stock, each line of an existing item is
\* committed: the item gets one row per line and its stock falls by the sum.
C26_PrecheckPerItemSums ==
  [][(last'.op = "batch" /\ last'.type = "OUT")
     => IF \E i \in DOMAIN inventory :
             item_total(last'.lines, i) > inventory[i].current_stock
          THEN /\ inventory' = inventory
               /\ transactions' = transactions
               /\ last'.successful_count = 0
          ELSE \A i \in DOMAIN inventory :
                 /\ inventory'[i].current_stock
                      = inventory[i].current_stock - item_total(last'.lines, i)
                 /\ Cardinality({t \in new_rows : transactions'[t].item_id = i})
                      = Cardinality({k \in 1..Len(last'.lines) :
                                      last'.lines[k].item_id = i})]_vars

\* an OUT batch of two lines on one item, each within the item's stock and
\* together above it, has aborted
C26_Witness ==
  /\ last.op = "batch" /\ last.type = "OUT" /\ Len(last.lines) = 2
  /\ last.lines[1].item_id = last.lines[2].item_id
  /\ last.lines[1].item_id \in DOMAIN inventory
  /\ \A k \in 1..2 :
       last.lines[k].quantity <= inventory[last.lines[1].item_id].current_stock
  /\ item_total(last.lines, last.lines[1].item_id)
       > inventory[last.lines[1].item_id].current_stock
  /\ transactions = <<>>
  /\ last.successful_count = 0

\* C27: frame of update_transaction.  Whether it succeeds or not, the row
\* keeps its type and its item_id, no row appears or disappears, every other
\* row stays as it was, and no item other than the row's changes at all.
C27_UpdateFrame ==
  [][(last'.op = "update") =>
       /\ DOMAIN transactions' = DOMAIN transactions
       /\ DOMAIN inventory' = DOMAIN inventory
       /\ \A t \in DOMAIN transactions :
            IF t = last'.tx_id
              THEN /\ transactions'[t].type = transactions[t].type
                   /\ transactions'[t].item_id = transactions[t].item_id
              ELSE transactions'[t] = transactions[t]
       /\ \A i \in DOMAIN inventory :
            (last'.tx_id \in DOMAIN transactions
               /\ i = transactions[last'.tx_id].item_id)
            \/ inventory'[i] = inventory[i]]_vars

\* a row has just been edited to quantity 2 while another item holds stock
\* through a row of its own
C27_Witness ==
  /\ last.op = "update" /\ last.ok /\ last.quantity = 2
  /\ transactions[last.tx_id].details = "edited"
  /\ \E t \in DOMAIN transactions :
       /\ transactions[t].item_id # transactions[last.tx_id].item_id
       /\ transactions[t].item_id \in DOMAIN inventory
       /\ transactions[t].type = "IN"
       /\ inventory[transactions[t].item_id].current_stock
            = transactions[t].quantity

\* C28: transaction ids are never reused.  tx_seq is at least every id ever
\* assigned (no row has a larger id, and it never decreases), and every row
\* an operation appends gets an id above it, deleted rows' ids included.
C28_IdsNeverReused ==
  [][/\ tx_seq' >= tx_seq
     /\ \A t \in DOMAIN transactions' : t <= tx_seq'
     /\ \A t \in new_rows : t > tx_seq]_vars

\* a row has just been appended with id 2 after the row with id 1, the only
\* other one, was deleted
C28_Witness ==
  /\ last.op \in {"record", "batch", "reverse"} /\ last.ok
  /\ DOMAIN transactions = {2}

\* row t of type IN or OUT already has a compensating row after it
reversed_before(txs, t) ==
  \E r \in DOMAIN txs :
    /\ r > t
    /\ txs[r].type = (IF txs[t].type = "IN" THEN "REVERSAL-OUT" ELSE "REVERSAL-IN")
    /\ txs[r].item_id = txs[t].item_id
    /\ txs[r].quantity = txs[t].quantity

\* C29: reverse_transaction keeps no record of earlier reversals.  On an IN or
\* OUT row that already has a compensating row, it succeeds exactly when the
\* stock check passes (always for OUT, stock >= q for IN), and then appends
\* one more compensating row and applies the compensating delta again.
C29_ReverseAgain ==
  [][(/\ last'.op = "reverse"
      /\ last'.tx_id \in DOMAIN transactions
      /\ transactions[last'.tx_id].type \in {"IN", "OUT"}
      /\ transactions[last'.tx_id].item_id \in DOMAIN inventory
      /\ reversed_before(transactions, last'.tx_id))
     => LET row == transactions[last'.tx_id]
            stock == inventory[row.item_id].current_stock
            passes == row.type = "OUT" \/ stock >= row.quantity
        IN  /\ last'.ok <=> passes
            /\ passes =>
                 /\ new_rows = {tx_seq'}
                 /\ transactions'[tx_seq'].type =
                      (IF row.type = "IN" THEN "REVERSAL-OUT" ELSE "REVERSAL-IN")
                 /\ transactions'[tx_seq'].item_id = row.item_id
                 /\ transactions'[tx_seq'].quantity = row.quantity
                 /\ inventory'[row.item_id].current_stock
                      = stock + (IF row.type = "IN" THEN -row.quantity
                                                    ELSE row.quantity)]_vars

\* the only OUT row, of quantity 1, has just been reversed for the second
\* time: two REVERSAL-IN rows follow it and the stock is 2 above what the OUT
\* left
C29_Witness ==
  /\ last.op = "reverse" /\ last.ok /\ last.tx_id = 1
  /\ DOMAIN transactions = {1, 2, 3}
  /\ transactions[1].type = "OUT" /\ transactions[1].quantity = 1
  /\ transactions[2].type = "REVERSAL-IN"
  /\ transactions[3].type = "REVERSAL-IN"
  /\ inventory[transactions[1].item_id].current_stock = 2

\* C30: record/delete round trip.  A successful record_transaction of type IN
\* or OUT on an existing item appends the row tx_seq' and moves that item's
\* stock by the row's effect, nothing else; delete_transaction of that row,
\* called next, succeeds, removes exactly that row and takes the effect back,
\* so stock and rows are again what they were before the record.
C30_RecordDeleteRoundTrip ==
  [][/\ (/\ last'.op = "record" /\ last'.ok
         /\ last'.type \in {"IN", "OUT"}
         /\ last'.item_id \in DOMAIN inventory)
        => (/\ new_rows = {tx_seq'}
            /\ \A t \in DOMAIN transactions : transactions'[t] = transactions[t]
            /\ inventory' =
                 [inventory EXCEPT ![last'.item_id].current_stock =
                    @ + signed_effect(last'.type, last'.quantity)])
     /\ (/\ last.op = "record" /\ last.ok
         /\ last.type \in {"IN", "OUT"}
         /\ last.item_id \in DOMAIN inventory
         /\ last'.op = "delete" /\ last'.tx_id = tx_seq)
        => (/\ last'.ok
            /\ transactions' =
                 [t \in DOMAIN transactions \ {tx_seq} |-> transactions[t]]
            /\ inventory' =
                 [inventory EXCEPT ![last.item_id].current_stock =
                    @ - signed_effect(last.type, last.quantity)])]_vars

====
